---- MODULE Spec2Model ----
(***************************************************************************)
(* Model of three programs of ml-dl-gen-ai:                                *)
(*   20-vector-db-learnings/1-simple-chromadb  (chunk, embed, insert,      *)
(*   search over a persisted Chroma collection);                           *)
(*   15-1-llama-example/speech_to_text.py  (query_ollama_stream, the       *)
(*   reader of the streamed generation response);                          *)
(*   21-chatgpt-github_code_analyst_agent  (clone-once logic of app.py,    *)
(*   clone_repo, and the retrieval behind Generate Answer).                *)
(*                                                                         *)
(* Texts are sequences of one-character strings.  The persisted store      *)
(* ./chroma_store is one catalog (collection name -> collection id) and    *)
(* the entries of every collection, shared by all callers: the path is     *)
(* resolved against the working directory, which no code of the            *)
(* repository changes.                                                     *)
(***************************************************************************)
EXTENDS Integers, Sequences, FiniteSets, TLC

(* ------------------------------ bounds --------------------------------- *)
NumProcs == 2        \* callers (processes or threads) using the store
MaxCalls == 2        \* calls made in all
MaxFileLen == 1      \* characters of an input file of add_documents
MaxEntries == 4      \* entries the store holds in total
MaxTextLen == 5      \* characters of a text given to the chunkers alone

(* ------------------------------ texts ---------------------------------- *)
NL == "\n"
SP == " "
Whitespace == {NL, SP}

TextsOver(alphabet, n) == UNION {[1..k -> alphabet] : k \in 0..n}

\* s[i..j] as a sequence; empty when j < i.
Slice(s, i, j) == IF j < i THEN <<>> ELSE SubSeq(s, i, j)

\* Does sep occur in s at position i?
OccursAt(s, sep, i) ==
    /\ i >= 1
    /\ i + Len(sep) - 1 <= Len(s)
    /\ \A k \in 1..Len(sep) : s[i + k - 1] = sep[k]

\* Position of the first occurrence of sep in s, 0 when there is none.
FindFirst(s, sep) ==
    LET hits == {i \in 1..Len(s) : OccursAt(s, sep, i)}
    IN IF hits = {} THEN 0 ELSE CHOOSE i \in hits : \A j \in hits : i <= j

\* str.split(sep): the pieces between the non-overlapping occurrences of
\* sep, found left to right; always at least one piece.
RECURSIVE StrSplit(_, _)
StrSplit(s, sep) ==
    LET i == FindFirst(s, sep)
    IN IF i = 0
       THEN <<s>>
       ELSE <<Slice(s, 1, i - 1)>> \o StrSplit(Slice(s, i + Len(sep), Len(s)), sep)

\* str.strip(): leading and trailing whitespace removed.
StrStrip(s) ==
    LET keep == {i \in 1..Len(s) : s[i] \notin Whitespace}
    IN IF keep = {}
       THEN <<>>
       ELSE LET lo == CHOOSE i \in keep : \A j \in keep : i <= j
                hi == CHOOSE i \in keep : \A j \in keep : j <= i
            IN SubSeq(s, lo, hi)

\* [f(x) for x in xs if keep(x)] with f = strip, keep = strip(x) non-empty.
RECURSIVE StripAndFilter(_)
StripAndFilter(xs) ==
    IF xs = <<>>
    THEN <<>>
    ELSE LET h == StrStrip(Head(xs))
         IN (IF h = <<>> THEN <<>> ELSE <<h>>) \o StripAndFilter(Tail(xs))

\* load_text without the "if chunk.strip()" filter.
load_text_keep_empty(text) ==
    LET parts == StrSplit(text, <<NL, NL>>)
    IN [i \in 1..Len(parts) |-> StrStrip(parts[i])]

\* load_text: [chunk.strip() for chunk in text.split('\n\n') if chunk.strip()]
load_text(text) == StripAndFilter(StrSplit(text, <<NL, NL>>))

\* The chunking of the effective add_documents: content.split("\n").
split_lines(content) == StrSplit(content, <<NL>>)


(* ----------------------- embedding and ranking ------------------------- *)
\* embed_texts is the pretrained sentence encoder: a fixed, deterministic
\* map from a text to a vector.  The model stands for it by a one-dimensional
\* vector, the number of "a" characters of the text.
embed_text(text) == Cardinality({i \in 1..Len(text) : text[i] = "a"})
embed_texts(texts) == [i \in 1..Len(texts) |-> embed_text(texts[i])]

\* Distance of two vectors (lower = more similar).
Distance(u, v) == IF u >= v THEN u - v ELSE v - u

\* metadatas=None of the first add_documents.
NoMeta == [source |-> "", chunk_index |-> -1]
\* where=None of search.
NoFilter == ""

\* where={"source": f}: equality on the metadata key.
Matches(entry, where) == where = NoFilter \/ entry.meta.source = where

RECURSIVE SelectMatching(_, _)
SelectMatching(entries, where) ==
    IF entries = <<>>
    THEN <<>>
    ELSE (IF Matches(Head(entries), where) THEN <<Head(entries)>> ELSE <<>>)
         \o SelectMatching(Tail(entries), where)

\* Insert e after every element not farther from q than e: a stable order.
RECURSIVE InsertByDistance(_, _, _)
InsertByDistance(sorted, e, q) ==
    IF sorted = <<>>
    THEN <<e>>
    ELSE IF Distance(q, Head(sorted).embedding) <= Distance(q, e.embedding)
         THEN <<Head(sorted)>> \o InsertByDistance(Tail(sorted), e, q)
         ELSE <<e>> \o sorted

RECURSIVE RankByDistance(_, _)
RankByDistance(entries, q) ==
    IF entries = <<>>
    THEN <<>>
    ELSE InsertByDistance(RankByDistance(SubSeq(entries, 1, Len(entries) - 1), q),
                          entries[Len(entries)], q)

Min(a, b) == IF a <= b THEN a ELSE b

\* collection.query(query_embeddings=[q], n_results=top_k, where=filters):
\* the entries matching the filter, nearest first, cut to n_results.
collection_query(entries, q, n_results, where) ==
    LET ranked == RankByDistance(SelectMatching(entries, where), q)
    IN SubSeq(ranked, 1, Min(n_results, Len(ranked)))

\* list(zip(matched_docs, distances, metadatas)) of search.
zip_results(hits, q) ==
    [i \in 1..Len(hits) |->
        [document |-> hits[i].document,
         distance |-> Distance(q, hits[i].embedding),
         meta     |-> hits[i].meta]]

\* chroma_query.py is no valid Python: the call at lines 27-33 lacks the comma
\* between include=[...] and where=filters, and the zip at line 42 the comma
\* between distances and metadatas.  Importing the module raises SyntaxError.
chroma_query_compiles == FALSE


(* ------------------------------ state ---------------------------------- *)
Procs == 1..NumProcs
Names == {"my_collection", "notes"}
Paths == {"data/sample.txt", "data/other.txt"}
FileTexts == TextsOver({"a", NL}, MaxFileLen)
Queries == {<<"a">>}

VARIABLES
    catalog,    \* collection name -> index into colls, 0 when there is none
    colls,      \* the collections of ./chroma_store: [name, entries]
    uuids,      \* uuid4 values handed out so far (each one is new)
    pc,         \* per caller: "idle", "gc_get", "gc_create", "add"
    op,         \* per caller: the function its current or last call runs
    arg,        \* per caller: the arguments and locals of that call
    hnd,        \* per caller: the collection get_collection returned
    res,        \* per caller: how its last call ended
    calls,      \* calls started so far
    overlap,    \* per caller: its get_collection ran while another's did
    wanted,     \* collection name -> entries add_documents calls were given
    text,       \* the text handed to load_text alone
    called,     \* load_text has been called on it
    out         \* what load_text returned

\* 15-1-llama-example/speech_to_text.py, query_ollama_stream
VARIABLES
    iter_lines,     \* the lines response.iter_lines() yields, in order
    cursor,         \* lines the for loop has taken so far
    full_response,  \* the local full_response
    qpc,            \* "start", "iter", "returned", "raised"
    qerr            \* the exception that left the call, "" when none

streamv == <<iter_lines, cursor, full_response, qpc, qerr>>

\* 21-chatgpt-github_code_analyst_agent
VARIABLES
    session_state,  \* per browser session: st.session_state (repo_path, repo_url)
    disk,           \* cloned_repos/: path -> the repository cloned there
    ui,             \* what the last run of app.py did, and for which session
    vectordbs       \* persist directory -> the Chroma store kept there

analystv == <<session_state, disk, ui, vectordbs>>

store == <<catalog, colls, uuids, pc, op, arg, hnd, res, calls, overlap, wanted>>
vars == <<store, text, called, out, streamv, analystv>>

NoArg == [name |-> "", path |-> "", content |-> <<>>, chunks |-> <<>>,
          query |-> <<>>, top_k |-> 0, where |-> NoFilter]
NoRes == [kind |-> "none", err |-> "", handle |-> 0, created |-> FALSE,
          hits |-> <<>>, added |-> 0, dup |-> FALSE, size |-> 0]

Ok(h, created) == [NoRes EXCEPT !.kind = "ok", !.handle = h, !.created = created]
Raised(e) == [NoRes EXCEPT !.kind = "error", !.err = e]

InitStore ==
    /\ catalog = [n \in Names |-> 0]
    /\ colls = <<>>
    /\ uuids = 0
    /\ pc = [p \in Procs |-> "idle"]
    /\ op = [p \in Procs |-> "none"]
    /\ arg = [p \in Procs |-> NoArg]
    /\ hnd = [p \in Procs |-> 0]
    /\ res = [p \in Procs |-> NoRes]
    /\ calls = 0
    /\ overlap = [p \in Procs |-> FALSE]
    /\ wanted = [n \in Names |-> <<>>]

(* --------------- code analyst: repositories, disk, session ------------- *)
NumSessions == 2     \* browser sessions of the code-analyst app
MaxDocs == 2         \* documents one Chroma store of the code analyst holds

Sessions == 1..NumSessions

\* URLs the user may type, as sequences of path pieces and "/" ("a" and "b"
\* stand for https://github.com/<owner>): two owners with a repository r, a
\* second repository q, and r typed with a trailing slash.
Slash == "/"
Urls == {<<"a", Slash, "r">>, <<"b", Slash, "r">>, <<"a", Slash, "q">>,
         <<"a", Slash, "r", Slash>>}
NoUrl == <<>>        \* the text input left empty

\* str.rstrip("/")
RStripSlash(s) ==
    LET keep == {i \in 1..Len(s) : s[i] # Slash}
    IN IF keep = {}
       THEN <<>>
       ELSE SubSeq(s, 1, CHOOSE i \in keep : \A j \in keep : j <= i)

\* repo_url.rstrip("/").split("/")[-1]
repo_name_of(repo_url) ==
    LET pieces == StrSplit(RStripSlash(repo_url), <<Slash>>)
    IN pieces[Len(pieces)]

\* os.path.join(local_dir, repo_name) with local_dir = "cloned_repos"
repo_path_of(repo_url) == <<"cloned_repos", Slash>> \o repo_name_of(repo_url)

RepoPaths == {repo_path_of(u) : u \in Urls}

\* The repository git clones from a URL: a trailing slash names the same one.
Origin(repo_url) == RStripSlash(repo_url)
NoDir == <<>>       \* a path that does not exist on disk

\* The code files of the remote repositories: relative path -> content.
FilesOf(origin) ==
    IF origin = <<"a", Slash, "r">>
    THEN << [path |-> <<"app.py">>, content |-> <<"a">>],
            [path |-> <<"lib", Slash, "util.py">>, content |-> <<"a", "a">>] >>
    ELSE IF origin = <<"b", Slash, "r">>
    THEN << [path |-> <<"app.py">>, content |-> <<"b">>] >>
    ELSE IF origin = <<"a", Slash, "q">>
    THEN << [path |-> <<"main.py">>, content |-> <<"a">>] >>
    ELSE <<>>

FileNames ==
    UNION {{FilesOf(Origin(u))[i].path : i \in 1..Len(FilesOf(Origin(u)))} :
              u \in Urls}

\* persist_directory="chroma_db" of rag/embedder.py and rag/rag_chain.py
CHROMA_DB_DIR == <<"chroma_db">>
PersistDirs == {CHROMA_DB_DIR} \cup FileNames

NoSession == [has_repo_path |-> FALSE, repo_path |-> NoDir, repo_url |-> NoUrl]
NoStore == [exists |-> FALSE, docs |-> <<>>]
NoUi == [session |-> 0, branch |-> "none", repo_url |-> NoUrl,
         before |-> NoSession,
         repo_path |-> NoDir, asked |-> FALSE, selected_file |-> <<>>,
         question |-> <<>>, filter |-> <<>>, persist_directory |-> <<>>,
         k |-> 0, docs |-> <<>>]

InitAnalyst ==
    /\ session_state = [s \in Sessions |-> NoSession]
    /\ disk = [d \in RepoPaths |-> NoDir]
    /\ ui = NoUi
    /\ vectordbs = [d \in PersistDirs |-> NoStore]

\* No call of query_ollama_stream under way.
InitStream ==
    /\ iter_lines = <<>>
    /\ cursor = 0
    /\ full_response = <<>>
    /\ qpc = "start"
    /\ qerr = ""

Init ==
    /\ InitStore
    /\ text = <<>>
    /\ called = FALSE
    /\ out = <<>>
    /\ InitStream
    /\ InitAnalyst

InGetCollection(q) == pc[q] \in {"gc_get", "gc_create"}

RECURSIVE SumLen(_)
SumLen(seqs) == IF seqs = <<>> THEN 0 ELSE Len(Head(seqs)) + SumLen(Tail(seqs))

\* Entries stored plus entries the running add_documents calls will store.
Load ==
    SumLen([i \in 1..Len(colls) |-> colls[i].entries])
    + SumLen([q \in Procs |-> IF pc[q] = "idle" THEN <<>> ELSE arg[q].chunks])

\* A caller enters get_collection: note who else is inside it.
EnterGetCollection(p) ==
    LET others == {q \in Procs \ {p} : InGetCollection(q)}
    IN overlap' = [q \in Procs |->
                      IF q = p THEN others # {}
                      ELSE IF q \in others THEN TRUE ELSE overlap[q]]

StartCall(p, f, a) ==
    /\ pc[p] = "idle"
    /\ calls < MaxCalls
    /\ calls' = calls + 1
    /\ op' = [op EXCEPT ![p] = f]
    /\ arg' = [arg EXCEPT ![p] = a]

\* The call of p ends with result r.
Return(p, r) ==
    /\ pc' = [pc EXCEPT ![p] = "idle"]
    /\ res' = [res EXCEPT ![p] = r]

\* The documents of p's add_documents call are recorded as given.
NoteWanted(p) ==
    LET n == Len(arg[p].chunks)
        given == [i \in 1..n |->
                    [document |-> arg[p].chunks[i],
                     meta |-> IF op[p] = "add_documents"
                              THEN [source |-> arg[p].path, chunk_index |-> i - 1]
                              ELSE NoMeta]]
    IN wanted' = [wanted EXCEPT ![arg[p].name] = @ \o given]

(* --------------------- chroma_setup.get_collection --------------------- *)
\* A caller calls get_collection(name) itself.
get_collection(p, name) ==
    /\ StartCall(p, "get_collection", [NoArg EXCEPT !.name = name])
    /\ pc' = [pc EXCEPT ![p] = "gc_get"]
    /\ hnd' = [hnd EXCEPT ![p] = 0]
    /\ res' = [res EXCEPT ![p] = NoRes]
    /\ EnterGetCollection(p)
    /\ UNCHANGED <<catalog, colls, uuids, wanted, text, called, out, streamv, analystv>>

\* get_collection returned h to its caller: a direct call ends, add_documents
\* goes on to collection.add.
GotCollection(p, h, created) ==
    /\ hnd' = [hnd EXCEPT ![p] = h]
    /\ IF op[p] = "get_collection"
       THEN Return(p, Ok(h, created))
       ELSE /\ pc' = [pc EXCEPT ![p] = "add"]
            /\ res' = [res EXCEPT ![p] = [@ EXCEPT !.created = created]]

\* try: return client.get_collection(name), as if the lookup always raised.
gc_get_always_raises(p) ==
    /\ pc[p] = "gc_get"
    /\ pc' = [pc EXCEPT ![p] = "gc_create"]
    /\ UNCHANGED <<catalog, colls, uuids, op, arg, hnd, res, calls, overlap, wanted>>
    /\ UNCHANGED <<text, called, out, streamv, analystv>>

\* try: return client.get_collection(name) / except: (go on to create)
gc_get(p) ==
    /\ pc[p] = "gc_get"
    /\ IF catalog[arg[p].name] # 0
       THEN GotCollection(p, catalog[arg[p].name], FALSE)
       ELSE /\ pc' = [pc EXCEPT ![p] = "gc_create"]
            /\ UNCHANGED <<hnd, res>>
    /\ UNCHANGED <<catalog, colls, uuids, op, arg, calls, overlap, wanted, text, called, out, streamv, analystv>>

\* except: return client.create_collection(name).  Creating a name that
\* exists raises, and the exception leaves get_collection and its caller.
gc_create(p) ==
    /\ pc[p] = "gc_create"
    /\ IF catalog[arg[p].name] = 0
       THEN /\ colls' = Append(colls, [name |-> arg[p].name, entries |-> <<>>])
            /\ catalog' = [catalog EXCEPT ![arg[p].name] = Len(colls) + 1]
            /\ GotCollection(p, Len(colls) + 1, TRUE)
            /\ UNCHANGED wanted
       ELSE /\ Return(p, Raised("CollectionAlreadyExists"))
            /\ IF op[p] = "get_collection" THEN UNCHANGED wanted ELSE NoteWanted(p)
            /\ UNCHANGED <<catalog, colls, hnd>>
    /\ UNCHANGED <<uuids, op, arg, calls, overlap, text, called, out, streamv, analystv>>


(* ---------------------- chroma_add.add_documents ----------------------- *)
\* add_documents(file_path, collection_name), the definition in effect (the
\* second of the file): read the file, split it on "\n", embed the chunks,
\* then call get_collection.
add_documents(p, file_path, content, name) ==
    LET chunks == split_lines(content)
    IN /\ StartCall(p, "add_documents",
                    [NoArg EXCEPT !.name = name, !.path = file_path,
                                  !.content = content, !.chunks = chunks])
       /\ Load + Len(chunks) <= MaxEntries
       /\ pc' = [pc EXCEPT ![p] = "gc_get"]
       /\ hnd' = [hnd EXCEPT ![p] = 0]
       /\ res' = [res EXCEPT ![p] = NoRes]
       /\ EnterGetCollection(p)
       /\ UNCHANGED <<catalog, colls, uuids, wanted, text, called, out, streamv, analystv>>

IdsOf(entries) == {entries[i].id : i \in 1..Len(entries)}

RECURSIVE DropKnownIds(_, _)
DropKnownIds(batch, known) ==
    IF batch = <<>>
    THEN <<>>
    ELSE (IF Head(batch).id \in known THEN <<>> ELSE <<Head(batch)>>)
         \o DropKnownIds(Tail(batch), known)

\* Collection.add of the Chroma client (0.4 and later, the versions that have
\* PersistentClient): a record whose id the collection already holds is
\* skipped without an error, the others are appended in the order given.
chroma_add(entries, batch) == entries \o DropKnownIds(batch, IdsOf(entries))

\* ids = [str(uuid.uuid4()) ...] of the definition in effect:
\* values never handed out before.
uuid_ids(n) == [i \in 1..n |-> <<"uuid", uuids + i>>]
\* ids = [f"doc-{i}" ...] of the first definition.
doc_ids(n) == [i \in 1..n |-> <<"doc", i - 1>>]

\* metadatas = [{"source": file_path, "chunk_index": i} ...]
metadatas_of(file_path, n) ==
    [i \in 1..n |-> [source |-> file_path, chunk_index |-> i - 1]]

\* collection.add(documents=..., embeddings=..., [metadatas=...,] ids=...)
\* and the return of add_documents.  An empty batch is refused by the client
\* (ValueError), after get_collection has run.
collection_add(p) ==
    LET h == hnd[p]
        chunks == arg[p].chunks
        n == Len(chunks)
        embeddings == embed_texts(chunks)
        second == op[p] = "add_documents"
        ids == IF second THEN uuid_ids(n) ELSE doc_ids(n)
        metadatas == IF second THEN metadatas_of(arg[p].path, n)
                     ELSE [i \in 1..n |-> NoMeta]
        batch == [i \in 1..n |->
                    [id |-> ids[i], document |-> chunks[i],
                     embedding |-> embeddings[i], meta |-> metadatas[i]]]
        old == colls[h].entries
        new == chroma_add(old, batch)
    IN /\ pc[p] = "add"
       /\ IF n = 0
          THEN /\ Return(p, Raised("ValueError"))
               /\ UNCHANGED <<colls, uuids>>
          ELSE /\ colls' = [colls EXCEPT ![h].entries = new]
               /\ uuids' = IF second THEN uuids + n ELSE uuids
               /\ Return(p, [Ok(h, res[p].created) EXCEPT
                                !.added = Len(new) - Len(old),
                                !.dup = IdsOf(batch) \cap IdsOf(old) # {}])
       /\ NoteWanted(p)
       /\ UNCHANGED <<catalog, op, arg, hnd, calls, overlap, text, called, out, streamv, analystv>>

(* ------------------------- chroma_query.search ------------------------- *)
\* search(query, top_k, collection_name, filters).  The module does not
\* compile, so the call raises SyntaxError where search is imported.  Were it
\* valid: embed the query, get_collection (which creates a missing
\* collection), collection.query, zip.
search(p, query, top_k, name, where) ==
    LET q == embed_texts(<<query>>)[1]
        exists == catalog[name] # 0
        entries == IF exists THEN colls[catalog[name]].entries ELSE <<>>
        hits == zip_results(collection_query(entries, q, top_k, where), q)
    IN /\ StartCall(p, "search",
                    [NoArg EXCEPT !.name = name, !.query = query,
                                  !.top_k = top_k, !.where = where])
       /\ hnd' = [hnd EXCEPT ![p] = 0]
       /\ overlap' = [overlap EXCEPT ![p] = FALSE]
       /\ IF chroma_query_compiles
          THEN /\ Return(p, [Ok(IF exists THEN catalog[name] ELSE Len(colls) + 1,
                                ~exists) EXCEPT !.hits = hits,
                                                !.size = Len(entries)])
               /\ IF exists
                  THEN UNCHANGED <<catalog, colls>>
                  ELSE /\ colls' = Append(colls, [name |-> name, entries |-> <<>>])
                       /\ catalog' = [catalog EXCEPT ![name] = Len(colls) + 1]
          ELSE /\ Return(p, [Raised("SyntaxError") EXCEPT !.size = Len(entries)])
               /\ UNCHANGED <<catalog, colls>>
       /\ UNCHANGED <<uuids, wanted, text, called, out, streamv, analystv>>

(* --------------------------- specification ----------------------------- *)
TopKs == {1, MaxEntries}
Filters == {NoFilter, "data/sample.txt"}

Next ==
    \/ \E p \in Procs, name \in Names : get_collection(p, name)
    \/ \E p \in Procs, f \in Paths, c \in FileTexts, name \in Names :
          add_documents(p, f, c, name)
    \/ \E p \in Procs : gc_get(p)
    \/ \E p \in Procs : gc_create(p)
    \/ \E p \in Procs : collection_add(p)
    \/ \E p \in Procs, q \in Queries, k \in TopKs, name \in Names, w \in Filters :
          search(p, q, k, name, w)

Spec == Init /\ [][Next]_vars


(* ------------- the first add_documents of chroma_add.py ---------------- *)
\* add_documents(path, collection_name) as first defined in chroma_add.py
\* (lines 17-36; the later definition replaces it when the module loads):
\* chunks from load_text, ids doc-0, doc-1, ..., no metadata.
add_documents_first(p, path, content, name) ==
    LET chunks == load_text(content)
    IN /\ StartCall(p, "add_documents_first",
                    [NoArg EXCEPT !.name = name, !.path = path,
                                  !.content = content, !.chunks = chunks])
       /\ Load + Len(chunks) <= MaxEntries
       /\ pc' = [pc EXCEPT ![p] = "gc_get"]
       /\ hnd' = [hnd EXCEPT ![p] = 0]
       /\ res' = [res EXCEPT ![p] = NoRes]
       /\ EnterGetCollection(p)
       /\ UNCHANGED <<catalog, colls, uuids, wanted, text, called, out, streamv, analystv>>

ParagraphFiles == TextsOver({"a", NL}, MaxFileLen) \cup {<<"a", NL, NL, "a">>}

NextFirst ==
    \/ \E p \in Procs, f \in Paths, c \in ParagraphFiles, name \in Names :
          add_documents_first(p, f, c, name)
    \/ \E p \in Procs : gc_get(p)
    \/ \E p \in Procs : gc_create(p)
    \/ \E p \in Procs : collection_add(p)

\* The store used only through the first definition of add_documents.
SpecFirst == Init /\ [][NextFirst]_vars

(* -------------------------- load_text alone ---------------------------- *)
Example == <<"a", NL, NL, "b", NL, NL, "c">>
ChunkTexts == TextsOver({"a", "b", SP, NL}, MaxTextLen) \cup {Example}

InitChunk ==
    /\ InitStore
    /\ text \in ChunkTexts
    /\ called = FALSE
    /\ out = <<>>
    /\ InitStream
    /\ InitAnalyst

\* load_text(path) on a file holding text.
call_load_text ==
    /\ ~called
    /\ called' = TRUE
    /\ out' = load_text(text)
    /\ UNCHANGED <<store, text, streamv, analystv>>

SpecChunk == InitChunk /\ [][call_load_text]_vars


(* ------------- speech_to_text.query_ollama_stream ---------------------- *)
\* A line of the response body, by what the loop body does with its bytes:
\*   "empty"      b"", falsy: the body is skipped
\*   "not_utf8"   bytes line.decode('utf-8') rejects (UnicodeDecodeError)
\*   "not_json"   text json.loads rejects (JSONDecodeError)
\*   "json_other" JSON that is no object (a number, a string, a list, null):
\*                json.loads returns a value without .get (AttributeError)
\*   "object"     a JSON object; response is its 'response' text when
\*                has_response, done its 'done' member or "absent"
Fragments == {<<>>, <<"a">>, <<"b">>}
DoneValues == {"absent", "false", "true"}

Line(kind, has_response, response, done) ==
    [kind |-> kind, has_response |-> has_response, response |-> response,
     done |-> done]

ObjectLines ==
    {Line("object", TRUE, r, d) : r \in Fragments, d \in DoneValues}
    \cup {Line("object", FALSE, <<>>, d) : d \in DoneValues}
OtherLines ==
    {Line(k, FALSE, <<>>, "absent") :
        k \in {"empty", "not_utf8", "not_json", "json_other"}}
StreamLines == ObjectLines \cup OtherLines

\* chunk.get('response', '')
get_response(chunk) == IF chunk.has_response THEN chunk.response ELSE <<>>
\* chunk.get('done', False), as the if statement sees it
get_done(chunk) == chunk.done = "true"

\* requests.post(...) answered; response.raise_for_status() raises HTTPError
\* on a 4xx or 5xx status, otherwise full_response = "" and the loop starts.
post_request(status_ok) ==
    /\ qpc = "start"
    /\ IF status_ok
       THEN /\ qpc' = "iter"
            /\ qerr' = ""
       ELSE /\ qpc' = "raised"
            /\ qerr' = "HTTPError"
    /\ full_response' = <<>>
    /\ UNCHANGED <<iter_lines, cursor, store, text, called, out, analystv>>

\* One pass of "for line in response.iter_lines():", the break and the return
\* after it included.  Only JSONDecodeError is caught; the decode stands
\* outside the try.
iter_line ==
    /\ qpc = "iter"
    /\ cursor < Len(iter_lines)
    /\ LET line == iter_lines[cursor + 1]
       IN /\ cursor' = cursor + 1
          /\ CASE line.kind = "empty" ->
                    UNCHANGED <<full_response, qpc, qerr>>
               [] line.kind = "not_utf8" ->
                    /\ qpc' = "raised"
                    /\ qerr' = "UnicodeDecodeError"
                    /\ UNCHANGED full_response
               [] line.kind = "not_json" ->
                    UNCHANGED <<full_response, qpc, qerr>>
               [] line.kind = "json_other" ->
                    /\ qpc' = "raised"
                    /\ qerr' = "AttributeError"
                    /\ UNCHANGED full_response
               [] line.kind = "object" ->
                    /\ full_response' = full_response \o get_response(line)
                    /\ qpc' = IF get_done(line) THEN "returned" ELSE "iter"
                    /\ UNCHANGED qerr
    /\ UNCHANGED <<iter_lines, store, text, called, out, analystv>>

\* The iterator is exhausted: return full_response.
return_full_response ==
    /\ qpc = "iter"
    /\ cursor = Len(iter_lines)
    /\ qpc' = "returned"
    /\ UNCHANGED <<iter_lines, cursor, full_response, qerr, store, text, called, out, analystv>>

MaxLines == 3       \* lines of a streamed response

RECURSIVE SeqsUpTo(_, _)
SeqsUpTo(S, n) ==
    IF n = 0 THEN {<<>>}
    ELSE LET shorter == SeqsUpTo(S, n - 1)
         IN shorter \cup {Append(xs, x) : xs \in {ys \in shorter : Len(ys) = n - 1},
                                          x \in S}

InitQuery ==
    /\ InitStore
    /\ text = <<>>
    /\ called = FALSE
    /\ out = <<>>
    /\ iter_lines \in SeqsUpTo(StreamLines, MaxLines)
    /\ cursor = 0
    /\ full_response = <<>>
    /\ qpc = "start"
    /\ qerr = ""
    /\ InitAnalyst

NextQuery ==
    \/ \E status_ok \in BOOLEAN : post_request(status_ok)
    \/ iter_line
    \/ return_full_response

\* One call of query_ollama_stream on a response of the given lines.
SpecQuery == InitQuery /\ [][NextQuery]_vars


(* ------------------- code analyst: tools/clone_repo -------------------- *)
\* clone_repo(repo_url): remove what is at repo_path, then git clone.  git_ok
\* is whether git clone exits with status 0; a failed clone leaves no
\* directory and raises RuntimeError.
clone_repo(d, repo_url, git_ok) ==
    LET repo_path == repo_path_of(repo_url)
        removed == [d EXCEPT ![repo_path] = NoDir]
    IN IF git_ok
       THEN [raised |-> FALSE, repo_path |-> repo_path,
             disk |-> [removed EXCEPT ![repo_path] = Origin(repo_url)]]
       ELSE [raised |-> TRUE, repo_path |-> NoDir, disk |-> removed]

\* get_repo_files(repo_path): the code files under repo_path, sorted; none
\* when the path does not exist (os.walk yields nothing).
get_repo_files(d, repo_path) ==
    LET files == IF repo_path \in DOMAIN d THEN FilesOf(d[repo_path]) ELSE <<>>
    IN [i \in 1..Len(files) |-> files[i].path]

\* read_file_content(repo_path, relative_file_path)
read_file_content(d, repo_path, relative_file_path) ==
    LET files == FilesOf(d[repo_path])
        i == CHOOSE j \in 1..Len(files) : files[j].path = relative_file_path
    IN files[i].content

(* --------------------- code analyst: rag package ----------------------- *)
RECURSIVE WithSource(_, _)
WithSource(docs, source) ==
    IF docs = <<>>
    THEN <<>>
    ELSE (IF Head(docs).source = source THEN <<Head(docs)>> ELSE <<>>)
         \o WithSource(Tail(docs), source)

\* The retriever of answer_question_with_rag: search_kwargs k and
\* filter {"source": file_name}, nearest first.
retrieve(docs, question, k, file_name) ==
    LET ranked == RankByDistance(WithSource(docs, file_name), embed_text(question))
    IN SubSeq(ranked, 1, Min(k, Len(ranked)))

\* answer_question_with_rag(question, file_name, persist_directory): open the
\* Chroma store at persist_directory (an empty one is made when there is
\* none; the directory is taken relative to the working directory, and a
\* clash with a file of that name is left out) and retrieve for the question.
\* The answer the language model writes from the retrieved documents is not
\* modelled.
answer_question_with_rag(dbs, question, file_name, persist_directory) ==
    [vectordbs |-> [dbs EXCEPT ![persist_directory].exists = TRUE],
     question |-> question,
     filter |-> file_name,
     persist_directory |-> persist_directory,
     k |-> 5,
     docs |-> retrieve(dbs[persist_directory].docs, question, 5, file_name)]

\* run_embedding_pipeline_all_files(code_files) on the code files of the
\* clone at repo_path, keyed by their relative paths: one document per file
\* with metadata {"source": file_name}, added to the store at "chroma_db".
run_embedding_pipeline_all_files(repo_path) ==
    LET files == FilesOf(disk[repo_path])
        documents == [i \in 1..Len(files) |->
                         [page_content |-> files[i].content,
                          embedding |-> embed_text(files[i].content),
                          source |-> files[i].path]]
        db == vectordbs[CHROMA_DB_DIR]
    IN /\ disk[repo_path] # NoDir
       /\ Len(db.docs) + Len(documents) <= MaxDocs
       /\ vectordbs' = [vectordbs EXCEPT ![CHROMA_DB_DIR] =
                           [exists |-> TRUE, docs |-> db.docs \o documents]]
       /\ UNCHANGED <<session_state, disk, ui>>
       /\ UNCHANGED <<store, text, called, out, streamv>>

(* ------------------------ code analyst: app.py ------------------------- *)
UserQueries == {<<>>, <<"a">>}

\* The test of the clone-once logic with "and" for "or".
must_clone_and(state, repo_url) ==
    ~state.has_repo_path /\ state.repo_url # repo_url

\* "repo_path" not in st.session_state or st.session_state.repo_url != repo_url
must_clone(state, repo_url) ==
    ~state.has_repo_path \/ state.repo_url # repo_url

\* One run of app.py for session s (Streamlit runs the script again on every
\* interaction): repo_url is the text input, git_ok the outcome of git clone
\* should it run, pick the entry chosen in the select box, user_query the
\* question typed, pressed whether Generate Answer was clicked.
rerun(s, repo_url, git_ok, pick, user_query, pressed) ==
    LET state == session_state[s]
        clone == must_clone(state, repo_url)
        cloned == clone_repo(disk, repo_url, git_ok)
        disk1 == IF clone THEN cloned.disk ELSE disk
        repo_path == IF clone THEN cloned.repo_path ELSE state.repo_path
        files == get_repo_files(disk1, repo_path)
        selected_file == IF files = <<>> THEN <<>> ELSE files[pick]
        asks == pressed /\ user_query # <<>> /\ selected_file # <<>>
        file_content == read_file_content(disk1, repo_path, selected_file)
        rag == answer_question_with_rag(vectordbs, user_query, file_content,
                                        selected_file)
        seen == [NoUi EXCEPT !.session = s, !.repo_url = repo_url,
                             !.before = state]
    IN /\ IF repo_url = NoUrl
          THEN /\ ui' = [seen EXCEPT !.branch = "no_url"]
               /\ UNCHANGED <<session_state, disk, vectordbs>>
          ELSE IF clone /\ cloned.raised
          THEN \* st.error, st.stop
               /\ ui' = [seen EXCEPT !.branch = "failed"]
               /\ disk' = disk1
               /\ UNCHANGED <<session_state, vectordbs>>
          ELSE /\ pick \in 1..Len(files) \/ (files = <<>> /\ pick = 1)
               /\ disk' = disk1
               /\ session_state' =
                     IF clone
                     THEN [session_state EXCEPT ![s] =
                              [has_repo_path |-> TRUE, repo_path |-> repo_path,
                               repo_url |-> repo_url]]
                     ELSE session_state
               /\ vectordbs' = IF asks THEN rag.vectordbs ELSE vectordbs
               /\ ui' = [seen EXCEPT
                            !.branch = IF clone THEN "cloned" ELSE "cached",
                            !.repo_path = repo_path,
                            !.selected_file = selected_file,
                            !.asked = asks,
                            !.question = IF asks THEN rag.question ELSE <<>>,
                            !.filter = IF asks THEN rag.filter ELSE <<>>,
                            !.persist_directory =
                                IF asks THEN rag.persist_directory ELSE <<>>,
                            !.k = IF asks THEN rag.k ELSE 0,
                            !.docs = IF asks THEN rag.docs ELSE <<>>]
       /\ UNCHANGED <<store, text, called, out, streamv>>

MaxFiles == 2       \* entries of the select box

\* The users enter URLs and look at the first file; nobody asks a question.
NextClone ==
    \E s \in Sessions, u \in Urls \cup {NoUrl}, git_ok \in BOOLEAN :
        rerun(s, u, git_ok, 1, <<>>, FALSE)

\* The code-analyst app used from NumSessions browser sessions over one
\* cloned_repos directory.
SpecClone == Init /\ [][NextClone]_vars

AnswerUrls == {<<"a", Slash, "r">>, <<"b", Slash, "r">>}

\* One user browses the two repositories named r and asks questions, while
\* the embedding pipeline is run on what is cloned.
NextAnswer ==
    \/ \E u \in AnswerUrls, git_ok \in BOOLEAN, pick \in 1..MaxFiles,
          q \in UserQueries, pressed \in BOOLEAN :
          rerun(1, u, git_ok, pick, q, pressed)
    \/ \E d \in RepoPaths : run_embedding_pipeline_all_files(d)

SpecAnswer == Init /\ [][NextAnswer]_vars

(* ---------------------------- properties -------------------------------- *)
\* The last call of p ran f and has ended.
Ended(p, f) == pc[p] = "idle" /\ op[p] = f /\ res[p].kind # "none"

\* The entries the collection held when the search of p ran: entries are only
\* ever appended, so they are the first res[p].size of the collection.
Snapshot(p) ==
    IF catalog[arg[p].name] = 0
    THEN <<>>
    ELSE SubSeq(colls[catalog[arg[p].name]].entries, 1, res[p].size)

AsResult(e, query) ==
    [document |-> e.document,
     distance |-> Distance(embed_text(query), e.embedding),
     meta     |-> e.meta]

Count(xs, x) == Cardinality({i \in 1..Len(xs) : xs[i] = x})
SameBag(xs, ys) ==
    /\ Len(xs) = Len(ys)
    /\ \A i \in 1..Len(xs) : Count(xs, xs[i]) = Count(ys, xs[i])

NonDecreasing(hits) ==
    \A i \in 1..(Len(hits) - 1) : hits[i].distance <= hits[i + 1].distance

\* C1: a search with no filter and top_k >= N over a collection of N >= 1
\* inserted entries returns every one of them exactly once, in order of
\* non-decreasing distance.
C1_RoundTrip ==
    \A p \in Procs :
        LET snap == Snapshot(p)
        IN (/\ Ended(p, "search")
            /\ arg[p].where = NoFilter
            /\ Len(snap) >= 1
            /\ arg[p].top_k >= Len(snap))
           => /\ res[p].kind = "ok"
              /\ SameBag(res[p].hits,
                         [i \in 1..Len(snap) |-> AsResult(snap[i], arg[p].query)])
              /\ NonDecreasing(res[p].hits)

\* C2: every search returns at most top_k results, nearest first, and results
\* at the same distance in the order their entries were inserted.
C2_TopKOrdered ==
    \A p \in Procs :
        LET snap == Snapshot(p)
            hits == res[p].hits
        IN Ended(p, "search")
           => /\ res[p].kind = "ok"
              /\ Len(hits) <= arg[p].top_k
              /\ \E idx \in [1..Len(hits) -> 1..Len(snap)] :
                    /\ \A i \in 1..Len(hits) :
                          hits[i] = AsResult(snap[idx[i]], arg[p].query)
                    /\ \A i \in 1..(Len(hits) - 1) :
                          \/ hits[i].distance < hits[i + 1].distance
                          \/ /\ hits[i].distance = hits[i + 1].distance
                             /\ idx[i] < idx[i + 1]

\* C3: a search with a metadata filter returns only entries that satisfy it,
\* and exactly the min(top_k, number of matching entries) nearest of them.
C3_FilterBeforeRanking ==
    \A p \in Procs :
        LET matching == SelectMatching(Snapshot(p), arg[p].where)
            hits == res[p].hits
        IN (Ended(p, "search") /\ arg[p].where # NoFilter)
           => /\ res[p].kind = "ok"
              /\ Len(hits) = Min(arg[p].top_k, Len(matching))
              /\ \A i \in 1..Len(hits) : hits[i].meta.source = arg[p].where
              /\ \E idx \in [1..Len(hits) -> 1..Len(matching)] :
                    /\ \A i, j \in 1..Len(hits) : idx[i] = idx[j] => i = j
                    /\ \A i \in 1..Len(hits) :
                          hits[i] = AsResult(matching[idx[i]], arg[p].query)
                    /\ \A j \in 1..Len(matching), i \in 1..Len(hits) :
                          (\A k \in 1..Len(hits) : idx[k] # j)
                          => hits[i].distance
                             <= AsResult(matching[j], arg[p].query).distance

\* Each name has at most one collection, and callers that obtained a
\* collection for the same name hold the same one.
OneStorePerName ==
    /\ \A i, j \in 1..Len(colls) : colls[i].name = colls[j].name => i = j
    /\ \A p, q \in Procs :
          (res[p].handle # 0 /\ res[q].handle # 0 /\ arg[p].name = arg[q].name)
          => res[p].handle = res[q].handle

\* C4: a get_collection call that runs while no other get_collection does (one
\* call after another) never raises and returns the one collection of that
\* name, whose entries are those inserted through earlier handles.
C4_OpenOrCreateIdempotent ==
    /\ OneStorePerName
    /\ \A p \in Procs :
          (pc[p] = "idle" /\ op[p] \in {"get_collection", "add_documents"}
           /\ ~overlap[p])
          => /\ res[p].kind = "ok"
             /\ res[p].handle = catalog[arg[p].name]
             /\ colls[res[p].handle].name = arg[p].name

\* C4 happens: a second get_collection in sequence loads the collection that a
\* first call created and that holds the entries inserted through it.
C4_Witness ==
    \E p \in Procs :
        /\ Ended(p, "get_collection")
        /\ ~overlap[p]
        /\ calls = 2
        /\ res[p].kind = "ok"
        /\ ~res[p].created
        /\ Len(colls[res[p].handle].entries) > 0

\* C5: when the callers call get_collection concurrently (and nothing else),
\* every call ends with a handle onto the one collection of its name; none
\* fails.
C5_ConcurrentOpenSucceeds ==
    (\A q \in Procs : op[q] \in {"none", "get_collection"})
    => \A p \in Procs :
          (Ended(p, "get_collection") /\ overlap[p])
          => /\ res[p].kind = "ok"
             /\ res[p].handle = catalog[arg[p].name]

EntriesOf(name) == IF catalog[name] = 0 THEN <<>> ELSE colls[catalog[name]].entries

\* C6: once the add_documents calls of all callers have ended, each collection
\* holds exactly the entries those calls were given, no two of them under
\* one id.
C6_AddsSerialized ==
    (\A p \in Procs : Ended(p, "add_documents"))
    => \A name \in Names :
          LET es == EntriesOf(name)
          IN /\ SameBag([i \in 1..Len(es) |->
                            [document |-> es[i].document, meta |-> es[i].meta]],
                        wanted[name])
             /\ Cardinality(IdsOf(es)) = Len(es)

C9_NoBlankChunkInserted ==
    \A h \in 1..Len(colls) :
        \A i \in 1..Len(colls[h].entries) :
            StrStrip(colls[h].entries[i].document) # <<>>

\* C10: an add_documents call on a file with no non-empty chunk fails with
\* EmptyInputError and inserts nothing.
C10_EmptyInputRejected ==
    \A p \in Procs :
        (Ended(p, "add_documents") /\ StripAndFilter(arg[p].chunks) = <<>>)
        => /\ res[p].kind = "error"
           /\ res[p].err = "EmptyInputError"
           /\ res[p].added = 0


(* paragraphs as the claim words them: the runs of lines between boundaries *)
Join(lines) ==
    IF lines = <<>> THEN <<>>
    ELSE LET RECURSIVE J(_)
             J(k) == IF k = 1 THEN lines[1] ELSE J(k - 1) \o <<NL>> \o lines[k]
         IN J(Len(lines))

\* A boundary line: empty, or (whitespace_too) holding nothing but whitespace.
IsBoundary(line, whitespace_too) ==
    IF whitespace_too THEN StrStrip(line) = <<>> ELSE line = <<>>

\* The segments of the lines between boundary lines, in order.
RECURSIVE Segments(_, _, _)
Segments(lines, current, whitespace_too) ==
    IF lines = <<>>
    THEN (IF current = <<>> THEN <<>> ELSE <<Join(current)>>)
    ELSE IF IsBoundary(Head(lines), whitespace_too)
         THEN (IF current = <<>> THEN <<>> ELSE <<Join(current)>>)
              \o Segments(Tail(lines), <<>>, whitespace_too)
         ELSE Segments(Tail(lines), Append(current, Head(lines)), whitespace_too)

\* Segments stripped, the empty and whitespace-only ones dropped.
Paragraphs(t, whitespace_too) ==
    StripAndFilter(Segments(StrSplit(t, <<NL>>), <<>>, whitespace_too))

\* C8 as claimed: load_text returns the segments between blank lines (a line
\* of nothing but whitespace is a blank line), stripped, the empty ones
\* dropped, in order.
C8_BlankLineParagraphs ==
    called => out = Paragraphs(text, TRUE)

\* C8 as amended: load_text returns the segments between empty lines (two
\* newline characters in a row), stripped, the empty and whitespace-only ones
\* dropped, in order; "a", empty line, "b", empty line, "c" gives [a, b, c].
C8_EmptyLineParagraphs ==
    called
    => /\ out = Paragraphs(text, FALSE)
       /\ text = Example => out = <<<<"a">>, <<"b">>, <<"c">>>>

\* C8 happens: load_text has run on a text with leading whitespace and an
\* empty line, and returned its two paragraphs.
C8_Witness ==
    /\ called
    /\ text = <<SP, "a", NL, NL, "b">>
    /\ out = <<<<"a">>, <<"b">>>>

(* ------------------------ query_ollama_stream --------------------------- *)
\* A well-formed record: a JSON object.
WellFormed(line) == line.kind = "object"

\* The text the stream stands for: the 'response' texts of the well-formed
\* records in arrival order, up to and including the first one whose 'done'
\* is true; every other line contributes nothing.
RECURSIVE StreamText(_)
StreamText(ls) ==
    IF ls = <<>>
    THEN <<>>
    ELSE LET l == Head(ls)
         IN IF WellFormed(l)
            THEN (IF l.has_response THEN l.response ELSE <<>>)
                 \o (IF l.done = "true" THEN <<>> ELSE StreamText(Tail(ls)))
            ELSE StreamText(Tail(ls))

HasDoneRecord(ls) == \E i \in 1..Len(ls) : WellFormed(ls[i]) /\ ls[i].done = "true"

QueryEnded == qpc \in {"returned", "raised"}

\* C11: whatever lines the response streams, the call (once the request was
\* accepted) returns the 'response' texts of the well-formed records in
\* arrival order up to and including the first 'done' record; empty and
\* malformed lines are skipped and do not end the stream.
C11_StreamConcatenation ==
    (QueryEnded /\ qerr # "HTTPError")
    => /\ qpc = "returned"
       /\ full_response = StreamText(iter_lines)

\* C12: a call whose stream ended without a record carrying done = true fails
\* with GenerationBackendError; it does not return the text gathered so far.
C12_MissingDoneFails ==
    (QueryEnded /\ qerr # "HTTPError" /\ ~HasDoneRecord(iter_lines))
    => /\ qpc = "raised"
       /\ qerr = "GenerationBackendError"

(* --------------------------- clone cache -------------------------------- *)
\* The cache entry a successful clone of repo_url leaves in the session.
EntryFor(repo_url) ==
    [has_repo_path |-> TRUE, repo_path |-> repo_path_of(repo_url),
     repo_url |-> repo_url]

\* The last run of app.py had a URL entered.
RanWithUrl == ui.branch \in {"cloned", "failed", "cached"}

\* C13: a run of the app with a URL entered calls clone_repo if and only if
\* the session holds no repo_path or the URL differs from the cached
\* repo_url; a run with the cached URL uses the cached repo_path and leaves
\* the cache as it was; a successful clone makes the cache entry the pair
\* (URL, path of the new clone), replacing the old one, and a failed one
\* leaves the entry alone.  In every session repo_path and repo_url are set
\* together.
C13_CloneIffUrlNotCached ==
    /\ RanWithUrl =>
          LET after == session_state[ui.session]
          IN /\ ui.branch \in {"cloned", "failed"}
                   <=> (~ui.before.has_repo_path \/ ui.before.repo_url # ui.repo_url)
             /\ ui.branch = "cached"
                   => /\ ui.repo_path = ui.before.repo_path
                      /\ after = ui.before
             /\ ui.branch = "cloned"
                   => /\ after = EntryFor(ui.repo_url)
                      /\ ui.repo_path = after.repo_path
                      /\ disk[after.repo_path] = Origin(ui.repo_url)
             /\ ui.branch = "failed" => after = ui.before
    /\ \A s \in Sessions :
          IF session_state[s].has_repo_path
          THEN /\ session_state[s].repo_url \in Urls
               /\ session_state[s] = EntryFor(session_state[s].repo_url)
          ELSE session_state[s] = NoSession

\* C13 happens: a session that had a clone cached was given another URL, and
\* the run cloned it and replaced the cache entry.
C13_Witness ==
    /\ ui.branch = "cloned"
    /\ ui.before.has_repo_path
    /\ ui.before.repo_url # ui.repo_url
    /\ session_state[ui.session].repo_url = ui.repo_url

\* C16: whenever a run takes the "already cloned, using cached version"
\* branch, the cached repo_path exists on disk and holds the clone of the
\* cached repo_url.
C16_CachedCloneOnDisk ==
    ui.branch = "cached"
    => /\ disk[ui.repo_path] # NoDir
       /\ disk[ui.repo_path] = Origin(session_state[ui.session].repo_url)

(* ------------------------- Generate Answer ------------------------------ *)
\* C15: when Generate Answer is pressed with a question and a selected file,
\* the retrieval opens the store the embedding pipeline persists to, filters
\* on 'source' = the selected file's path, and returns at most 5 entries, all
\* of that source.
C15_FilterIsSelectedFile ==
    ui.asked
    => /\ ui.persist_directory = CHROMA_DB_DIR
       /\ ui.filter = ui.selected_file
       /\ Len(ui.docs) <= 5
       /\ \A i \in 1..Len(ui.docs) : ui.docs[i].source = ui.selected_file

(* --------------------------- indexed once ------------------------------- *)
\* How many entries of the collection hold chunk number i of the file.
CopiesOf(name, file_path, i, chunk) ==
    LET es == EntriesOf(name)
    IN Cardinality({j \in 1..Len(es) :
                       /\ es[j].document = chunk
                       /\ es[j].meta = [source |-> file_path, chunk_index |-> i]})

\* C14: once add_documents has run on a file, any number of times one run
\* after another on the same persisted store, the collection holds each
\* (non-blank) chunk of the file exactly once.
C14_IndexedOnce ==
    \A p \in Procs :
        (/\ Ended(p, "add_documents")
         /\ res[p].kind = "ok"
         /\ \A q \in Procs \ {p} : op[q] = "none")
        => \A i \in 1..Len(arg[p].chunks) :
              StrStrip(arg[p].chunks[i]) # <<>>
              => CopiesOf(arg[p].name, arg[p].path, i - 1, arg[p].chunks[i]) = 1


====
